---- MODULE Spec2Model ----
(***************************************************************************)
(* Model of src/find_patients.py: the FHIR patient completeness scan.      *)
(*                                                                         *)
(*   get_all_patients(limit)        one page request, parsed to a list of  *)
(*                                  patient ids ([] on any exception)      *)
(*   check_patient_data(patient_id) five sequential GETs inside ONE try    *)
(*                                  block, folded into data_status         *)
(*   find_complete_patients(t, l)   loop over the ids, keep the complete   *)
(*                                  verdicts, break at target_count        *)
(*   __main__                       catches KeyboardInterrupt / Exception  *)
(*                                                                         *)
(* The remote service is the environment: for each request in flight it    *)
(* may answer with any response of the request's response set, or never.   *)
(***************************************************************************)
EXTENDS Integers, Sequences, FiniteSets, TLC

\* ------------------------------------------------------------ bounds
MaxTarget == 2
MaxLimit == 2
MaxEntries == 1
\* a page may hold more entries than the _count that was asked for
MaxPage == MaxLimit + 1

\* ------------------------------------------------------------ constants
HTTP_OK == 200
\* the fetches of check_patient_data: demographics, blood pressure, weight,
\* height, medications
NChecks == 5

\* patient ids; an id is unique within one server
Ids == {"p1", "p2", "p3"}
\* an entry of the Patient bundle without resource/id
NoId == "noid"
\* statuses the service may answer with: OK, Multiple Choices (a 3xx that
\* requests does not follow), Not Found
Statuses == {HTTP_OK, 300, 404}

VARIABLES
    pc,                \* position of the program
    target_count,      \* argument of find_complete_patients
    search_limit,      \* argument of find_complete_patients
    patient_ids,       \* find_complete_patients: list returned by get_all_patients
    i,                 \* number of candidates taken from patient_ids by the for loop
    chk,               \* check_patient_data: the check being performed, 1..5
    data_status,       \* check_patient_data: the verdict under construction
    raised,            \* check_patient_data: the check whose fetch raised (0: none)
    response,          \* the response object of the last request, once it arrived
    issued,            \* check_patient_data: the checks whose request was sent
    complete_patients, \* find_complete_patients: the accumulating list
    result,            \* what the caller received: <<>> or <<the returned list>>
    calls,             \* history: ids check_patient_data was invoked with
    verdicts           \* history: what each finished invocation returned

vars == <<pc, target_count, search_limit, patient_ids, i, chk, data_status,
          raised, response, issued, complete_patients, result, calls, verdicts>>

\* ------------------------------------------------------------ responses
RECURSIVE SeqsUpTo(_, _)
SeqsUpTo(S, n) ==
    IF n = 0 THEN {<<>>}
    ELSE LET shorter == SeqsUpTo(S, n - 1)
         IN  shorter \cup {Append(s, x) : s \in {t \in shorter : Len(t) = n - 1}, x \in S}

NoResponse ==
    [kind |-> "none", status |-> 0, valid |-> FALSE, name |-> FALSE,
     birthDate |-> FALSE, hasEntry |-> FALSE, entry |-> <<>>]

\* requests.get raised (connection refused, reset, ...)
TransportError == [NoResponse EXCEPT !.kind = "exc"]

\* a response with a status; valid = the body parses and has the shape read
Http(s, v, n, b, h, e) ==
    [kind |-> "http", status |-> s, valid |-> v, name |-> n,
     birthDate |-> b, hasEntry |-> h, entry |-> e]

\* the entries of a Patient page: no id occurs twice
PageEntries ==
    {s \in SeqsUpTo(Ids \cup {NoId}, MaxPage) :
        \A j, k \in 1..Len(s) : (j # k /\ s[j] = s[k]) => s[j] = NoId}
CountEntries == SeqsUpTo({"e"}, MaxEntries)

\* answers to GET /Patient?_count=limit
EnumResponses ==
    {TransportError}
      \cup {Http(s, FALSE, FALSE, FALSE, FALSE, <<>>) : s \in Statuses}
      \cup {Http(s, TRUE, FALSE, FALSE, FALSE, <<>>) : s \in Statuses}
      \cup {Http(s, TRUE, FALSE, FALSE, TRUE, e) : s \in Statuses, e \in PageEntries}

\* answers to GET /Patient/{id}
PatientResponses ==
    {TransportError}
      \cup {Http(s, FALSE, FALSE, FALSE, FALSE, <<>>) : s \in Statuses}
      \cup {Http(HTTP_OK, TRUE, n, b, FALSE, <<>>) : n \in BOOLEAN, b \in BOOLEAN}

\* answers to GET /Observation?... and GET /MedicationRequest?...
BundleResponses ==
    {TransportError}
      \cup {Http(s, FALSE, FALSE, FALSE, FALSE, <<>>) : s \in Statuses}
      \cup {Http(HTTP_OK, TRUE, FALSE, FALSE, FALSE, <<>>)}
      \cup {Http(HTTP_OK, TRUE, FALSE, FALSE, TRUE, e) : e \in CountEntries}

CheckResponses(k) == IF k = 1 THEN PatientResponses ELSE BundleResponses

\* ------------------------------------------------------------ get_all_patients
\* Response.raise_for_status(): raises HTTPError for 4xx and 5xx only
RaiseForStatus(s) == s >= 400 /\ s < 600

\* the value get_all_patients returns for a response
get_all_patients(resp) ==
    IF resp.kind = "exc" THEN <<>>
    ELSE IF RaiseForStatus(resp.status) THEN <<>>
    ELSE IF ~resp.valid THEN <<>>
    ELSE IF ~resp.hasEntry THEN <<>>
    ELSE IF \E k \in 1..Len(resp.entry) : resp.entry[k] = NoId THEN <<>>
    ELSE resp.entry

\* ------------------------------------------------------------ check_patient_data
InitStatus(id) ==
    [id |-> id, demographics |-> FALSE, blood_pressure |-> 0, weight |-> FALSE,
     height |-> FALSE, medications |-> 0, has_complete_data |-> FALSE]

\* the response reaches the except clause: requests.get raised, or .json() /
\* the field access raised on a 200 response
CheckAbortsMut(resp) ==
    resp.kind = "exc" \/ resp.status # HTTP_OK \/ ~resp.valid

CheckAborts(resp) ==
    resp.kind = "exc" \/ (resp.status = HTTP_OK /\ ~resp.valid)

\* the field assignment of check k for a response that did not raise
ApplyCheck(ds, k, resp) ==
    IF resp.status # HTTP_OK THEN ds
    ELSE IF k = 1 THEN
        IF resp.name /\ resp.birthDate THEN [ds EXCEPT !.demographics = TRUE] ELSE ds
    ELSE IF k = 2 THEN
        IF resp.hasEntry THEN [ds EXCEPT !.blood_pressure = Len(resp.entry)] ELSE ds
    ELSE IF k = 3 THEN
        IF resp.hasEntry /\ Len(resp.entry) > 0 THEN [ds EXCEPT !.weight = TRUE] ELSE ds
    ELSE IF k = 4 THEN
        IF resp.hasEntry /\ Len(resp.entry) > 0 THEN [ds EXCEPT !.height = TRUE] ELSE ds
    ELSE
        IF resp.hasEntry THEN [ds EXCEPT !.medications = Len(resp.entry)] ELSE ds

\* the completeness predicate
IsComplete(ds) ==
    ds.demographics /\ ds.blood_pressure > 0 /\ ds.weight /\ ds.height

Finalize(ds) == [ds EXCEPT !.has_complete_data = IsComplete(ds)]

\* ------------------------------------------------------------ find_complete_patients
KeepVerdictMut(cp, has_complete, ds) ==
    IF has_complete THEN <<ds>> \o cp ELSE cp

\* lines 115-117: a complete verdict is appended
KeepVerdict(cp, has_complete, ds) ==
    IF has_complete THEN Append(cp, ds) ELSE cp

ReachedTargetMut(cp, target) == Len(cp) > target

ReachedTargetNever(cp, target) == FALSE

\* line 118: the break condition
ReachedTarget(cp, target) == Len(cp) >= target

\* what the history keeps of a returned verdict: all of a complete one, the id
\* and the flag of an incomplete one
Outcome(ds) == IF ds.has_complete_data THEN ds ELSE InitStatus(ds.id)

\* ------------------------------------------------------------ behaviour
Init ==
    /\ pc = "start"
    /\ target_count \in 1..MaxTarget
    /\ search_limit \in 0..MaxLimit
    /\ patient_ids = <<>>
    /\ i = 0
    /\ chk = 0
    /\ data_status = InitStatus("-")
    /\ raised = 0
    /\ response = NoResponse
    /\ issued = {}
    /\ complete_patients = <<>>
    /\ result = <<>>
    /\ calls = <<>>
    /\ verdicts = <<>>

\* line 107 -> line 17: the page request is sent
EnumRequest ==
    /\ pc = "start"
    /\ pc' = "enum_wait"
    /\ UNCHANGED <<target_count, search_limit, patient_ids, i, chk, data_status,
                   raised, response, issued, complete_patients, result, calls, verdicts>>

\* the service answers the request in flight (it need not, ever)
Respond ==
    /\ pc \in {"enum_wait", "check_wait"}
    /\ \E resp \in (IF pc = "enum_wait" THEN EnumResponses ELSE CheckResponses(chk)) :
          response' = resp
    /\ pc' = IF pc = "enum_wait" THEN "enum_got" ELSE "check_got"
    /\ UNCHANGED <<target_count, search_limit, patient_ids, i, chk, data_status,
                   raised, issued, complete_patients, result, calls, verdicts>>

\* lines 18-30 and 107-108
EnumReturn ==
    /\ pc = "enum_got"
    /\ patient_ids' = get_all_patients(response)
    /\ complete_patients' = <<>>
    /\ response' = NoResponse
    /\ pc' = "loop"
    /\ UNCHANGED <<target_count, search_limit, i, chk, data_status, raised,
                   issued, result, calls, verdicts>>

\* line 110: the next candidate, and lines 113, 42-50: check_patient_data is entered
LoopNext ==
    /\ pc = "loop"
    /\ i < Len(patient_ids)
    /\ i' = i + 1
    /\ calls' = Append(calls, patient_ids[i + 1])
    /\ data_status' = InitStatus(patient_ids[i + 1])
    /\ raised' = 0
    /\ chk' = 1
    /\ issued' = {}
    /\ pc' = "check_call"
    /\ UNCHANGED <<target_count, search_limit, patient_ids, response,
                   complete_patients, result, verdicts>>

\* line 110: the list is exhausted
LoopExit ==
    /\ pc = "loop"
    /\ i >= Len(patient_ids)
    /\ pc' = "ret"
    /\ UNCHANGED <<target_count, search_limit, patient_ids, i, chk, data_status,
                   raised, response, issued, complete_patients, result, calls, verdicts>>

\* lines 54, 61, 68, 75, 82: the request of check chk is sent
CheckRequest ==
    /\ pc = "check_call"
    /\ issued' = issued \cup {chk}
    /\ response' = NoResponse
    /\ pc' = "check_wait"
    /\ UNCHANGED <<target_count, search_limit, patient_ids, i, chk, data_status,
                   raised, complete_patients, result, calls, verdicts>>

\* lines 55-96 for the check whose response arrived, and 98-101 when it raises;
\* the response object stays in its local variable
CheckProcess ==
    /\ pc = "check_got"
    /\ IF CheckAborts(response)
       THEN /\ raised' = chk
            /\ pc' = "check_ret"
            /\ UNCHANGED <<chk, data_status>>
       ELSE IF chk < NChecks
       THEN /\ data_status' = ApplyCheck(data_status, chk, response)
            /\ chk' = chk + 1
            /\ pc' = "check_call"
            /\ UNCHANGED raised
       ELSE /\ data_status' = Finalize(ApplyCheck(data_status, chk, response))
            /\ pc' = "check_ret"
            /\ UNCHANGED <<chk, raised>>
    /\ UNCHANGED <<target_count, search_limit, patient_ids, i, response, issued,
                   complete_patients, result, calls, verdicts>>

\* lines 113-127: the verdict comes back to the loop. The frame of
\* check_patient_data is gone and the loop does not read has_complete and
\* data_status again before line 113 reassigns them.
LoopBody ==
    /\ pc = "check_ret"
    /\ verdicts' = Append(verdicts, Outcome(data_status))
    /\ complete_patients' =
          KeepVerdict(complete_patients, data_status.has_complete_data, data_status)
    /\ pc' = IF data_status.has_complete_data
                /\ ReachedTarget(complete_patients', target_count)
             THEN "ret" ELSE "loop"
    /\ chk' = 0
    /\ raised' = 0
    /\ data_status' = InitStatus("-")
    /\ response' = NoResponse
    /\ issued' = {}
    /\ UNCHANGED <<target_count, search_limit, patient_ids, i, result, calls>>

\* line 129
Return ==
    /\ pc = "ret"
    /\ result' = <<complete_patients>>
    /\ pc' = "returned"
    /\ UNCHANGED <<target_count, search_limit, patient_ids, i, chk, data_status,
                   raised, response, issued, complete_patients, calls, verdicts>>

\* Ctrl-C: KeyboardInterrupt is no Exception, so neither except clause of the
\* scan catches it; it unwinds to __main__ (lines 164-165), which only prints
Interrupt ==
    /\ pc \notin {"returned", "interrupted"}
    /\ pc' = "interrupted"
    /\ UNCHANGED <<target_count, search_limit, patient_ids, i, chk, data_status,
                   raised, response, issued, complete_patients, result, calls, verdicts>>

\* the steps the interpreter takes on its own
Step ==
    \/ EnumRequest
    \/ EnumReturn
    \/ LoopNext
    \/ LoopExit
    \/ CheckRequest
    \/ CheckProcess
    \/ LoopBody
    \/ Return

Next ==
    \/ EnumRequest
    \/ Respond
    \/ EnumReturn
    \/ LoopNext
    \/ LoopExit
    \/ CheckRequest
    \/ CheckProcess
    \/ LoopBody
    \/ Return
    \/ Interrupt

Spec == Init /\ [][Next]_vars

\* the interpreter keeps running; the service and the user owe nothing
FairSpec == Spec /\ WF_vars(Step)

\* ------------------------------------------------------------ properties
InFlight == pc \in {"enum_wait", "check_wait"}
Evaluated == pc = "check_ret"
IsCompleteVerdict(v) == v.has_complete_data
NoDuplicates(q) == \A j, k \in 1..Len(q) : q[j] = q[k] => j = k

\* C1: every verdict check_patient_data returns, whatever happened to its five
\* fetches, has has_complete_data true exactly when demographics is true,
\* blood_pressure > 0, weight is true and height is true.
C1_CompleteIffFourFields ==
    Evaluated =>
        (data_status.has_complete_data <=>
            (/\ data_status.demographics
             /\ data_status.blood_pressure > 0
             /\ data_status.weight
             /\ data_status.height))

\* C2: when the blood-pressure fetch fails with a transport error, the verdict
\* has blood_pressure = 0 and has_complete_data false, and the weight, height
\* and medication checks were still executed.
C2_BloodPressureFailureIsolated ==
    (Evaluated /\ raised = 2 /\ response.kind = "exc") =>
        /\ data_status.blood_pressure = 0
        /\ ~data_status.has_complete_data
        /\ {3, 4, 5} \subseteq issued

\* C3: the accumulating list never holds more than target_count verdicts,
\* after every loop iteration and when it is returned.
C3_AtMostTarget ==
    /\ Len(complete_patients) <= target_count
    /\ result # <<>> => Len(result[1]) <= target_count

C3_Witness ==
    /\ pc = "returned"
    /\ target_count = 2
    /\ Len(result[1]) = 2
    /\ Len(calls) = 2

\* C4: once the accumulated list holds target_count verdicts,
\* check_patient_data is never invoked again; the last candidate evaluated is
\* the one whose verdict filled the list.
C4_EarlyExit ==
    [][/\ Len(complete_patients) >= target_count => calls' = calls
       /\ (pc' = "ret" /\ Len(complete_patients') >= target_count) =>
              /\ Len(complete_patients') = target_count
              /\ calls'[Len(calls')] = complete_patients'[target_count].id]_vars

\* enumeration [p1, p2, p3], only p2 complete, target 1: p3 is never evaluated
C4_Witness ==
    /\ pc = "returned"
    /\ target_count = 1
    /\ patient_ids = <<"p1", "p2", "p3">>
    /\ calls = <<"p1", "p2">>
    /\ Len(result[1]) = 1
    /\ result[1][1].id = "p2"

\* C5: the accumulated (and the returned) list is exactly the complete
\* verdicts of the candidates evaluated, in enumeration order; the candidates
\* evaluated are a prefix of the enumeration, each evaluated once; a scan that
\* returns fewer than target_count verdicts has evaluated every candidate, and
\* a scan that left candidates unevaluated returns target_count verdicts.
C5_ResultIsCompletePrefix ==
    /\ complete_patients = SelectSeq(verdicts, IsCompleteVerdict)
    /\ Len(calls) <= Len(patient_ids)
    /\ calls = SubSeq(patient_ids, 1, Len(calls))
    /\ NoDuplicates(calls)
    /\ Len(verdicts) <= Len(calls)
    /\ \A k \in 1..Len(verdicts) : verdicts[k].id = calls[k]
    /\ pc = "returned" =>
          /\ result = <<SelectSeq(verdicts, IsCompleteVerdict)>>
          /\ Len(verdicts) = Len(calls)
          /\ Len(result[1]) < target_count => calls = patient_ids
          /\ Len(calls) < Len(patient_ids) => Len(result[1]) = target_count

\* exhausted search: two verdicts asked for, one complete candidate among three
C5_Witness ==
    /\ pc = "returned"
    /\ target_count = 2
    /\ Len(patient_ids) = 3
    /\ Len(verdicts) = 3
    /\ Len(result[1]) = 1
    /\ result[1][1].id = patient_ids[2]

\* a failure of the enumeration, as the claim lists them
EnumFailure(resp) ==
    \/ resp.kind = "exc"
    \/ resp.status < 200
    \/ resp.status >= 300
    \/ ~resp.valid
    \/ \E k \in 1..Len(resp.entry) : resp.entry[k] = NoId

\* C6: a request exception, a non-success status, malformed JSON or an entry
\* without resource/id makes get_all_patients return the empty list, and
\* check_patient_data is then never invoked.
C6_EnumFailureGivesEmpty ==
    [][(pc = "enum_got" /\ EnumFailure(response)) =>
          /\ patient_ids' = <<>>
          /\ calls' = <<>>]_vars

\* C7: when the scan is interrupted, every verdict accumulated so far has been
\* delivered to the caller.
C7_InterruptDeliversPartial ==
    pc = "interrupted" =>
        \A k \in 1..Len(complete_patients) :
            /\ result # <<>>
            /\ Len(result[1]) >= k
            /\ result[1][k] = complete_patients[k]

\* C8: get_all_patients returns at most search_limit ids, so that at most
\* search_limit candidates are evaluated.
C8_AtMostLimit ==
    /\ Len(patient_ids) <= search_limit
    /\ Len(calls) <= search_limit

\* the field check k assigns still has its default
FieldAtDefault(ds, k) ==
    IF k = 1 THEN ~ds.demographics
    ELSE IF k = 2 THEN ds.blood_pressure = 0
    ELSE IF k = 3 THEN ~ds.weight
    ELSE IF k = 4 THEN ~ds.height
    ELSE ds.medications = 0

\* the fields other than has_complete_data
Fields(ds) ==
    <<ds.id, ds.demographics, ds.blood_pressure, ds.weight, ds.height, ds.medications>>

\* C9: a status other than 200 for one check leaves that check's field at its
\* default and no other field changed, raises nothing, and is followed by the
\* next check, or after the last check by has_complete_data computed from the
\* fields; an evaluation in which nothing raised issued all five checks.
C9_Non200DegradesOneField ==
    /\ [][(/\ pc = "check_got"
           /\ response.kind = "http"
           /\ response.status # HTTP_OK
           /\ pc' # "interrupted") =>
             /\ FieldAtDefault(data_status', chk)
             /\ Fields(data_status') = Fields(data_status)
             /\ raised' = 0
             /\ IF chk < NChecks
                THEN pc' = "check_call" /\ chk' = chk + 1
                ELSE /\ pc' = "check_ret"
                     /\ data_status'.has_complete_data =
                          (/\ data_status'.demographics
                           /\ data_status'.blood_pressure > 0
                           /\ data_status'.weight
                           /\ data_status'.height)]_vars
    /\ [](Evaluated /\ raised = 0 => issued = 1..NChecks)

\* the blood-pressure check was answered 404, the verdict keeps the
\* demographics found before and the weight check is up next
C9_Witness ==
    /\ pc = "check_call"
    /\ chk = 3
    /\ response.kind = "http"
    /\ response.status = 404
    /\ data_status.demographics
    /\ data_status.blood_pressure = 0

\* C10: no remote call blocks for ever: a request in flight is always
\* eventually over, answered or timed out.
C10_NoCallBlocksForever == InFlight ~> ~InFlight


====
